---- MODULE Spec2Model ----
(***************************************************************************)
(* Model of gpt_export.py: the export of a ChatGPT conversation log to     *)
(* Markdown documents, an index and a media log.                           *)
(*                                                                         *)
(* Text is modelled at two levels.  Titles, timestamps, slugs, file names  *)
(* and document headers are sequences of one-character strings, so that    *)
(* slugify, the header search of should_skip_file and the file names are   *)
(* computed character by character.  Message text is a sequence of tokens  *)
(* (a run of whitespace, a run of plain text, one remote image URL, ...),  *)
(* the granularity at which the URL pattern of sanitize_and_log_images     *)
(* and str.strip() act.                                                    *)
(***************************************************************************)
EXTENDS Integers, Sequences, FiniteSets, TLC

VARIABLES
    conversations,            \* the loaded list of threads (line 148/150)
    INCLUDE_SYSTEM_MESSAGES,  \* configuration flag (line 15)
    pc,                       \* "loop", "done" or "crashed"
    run,                      \* number of the current run of the script
    idx,                      \* loop index of line 156 (next thread)
    fs,                       \* documents under CONV_PATH: path -> document
    index_md,                 \* index.md, a sequence holding 0 or 1 file contents
    media_file,               \* media_references.txt, likewise
    toc,                      \* line 154
    media_log_entries,        \* line 24
    total_threads,            \* line 25
    total_messages,           \* line 26
    report,                   \* what each loop iteration of this run did
    url_names,                \* every (url, local name) rewrite of this run
    fs_start,                 \* the documents as this run found them
    edits                     \* the manual edits made: after which run each

vars == <<conversations, INCLUDE_SYSTEM_MESSAGES, pc, run, idx, fs, index_md,
          media_file, toc, media_log_entries, total_threads, total_messages,
          report, url_names, fs_start, edits>>

---------------------------------------------------------------------------
(* Bounds of the model *)

MaxThreads == 2
MaxRuns == 2
MaxEdits == 1

(* Program constants *)

MAX_MESSAGES_PER_FILE == 100
SlugLen == 50
IdxWidth == 3
CountWidth == 2

---------------------------------------------------------------------------
(* Characters and strings *)

UpperChars == <<"A","B","C","D","E","F","G","H","I","J","K","L","M",
                "N","O","P","Q","R","S","T","U","V","W","X","Y","Z">>

LowerChars == <<"a","b","c","d","e","f","g","h","i","j","k","l","m",
                "n","o","p","q","r","s","t","u","v","w","x","y","z">>

DigitChars == <<"0","1","2","3","4","5","6","7","8","9">>

Range(s) == {s[i] : i \in DOMAIN s}

WhiteChars == {" ", "\n", "\t"}

AlnumChars == Range(UpperChars) \cup Range(LowerChars) \cup Range(DigitChars)

\* str.isalnum() of one character
IsAlnum(c) == c \in AlnumChars

LowerChar(c) ==
    IF c \in Range(UpperChars)
    THEN LowerChars[CHOOSE i \in DOMAIN UpperChars : UpperChars[i] = c]
    ELSE c

Take(s, n) == SubSeq(s, 1, IF Len(s) < n THEN Len(s) ELSE n)

\* str.strip(): s between its first and its last position in nonws, the
\* positions of s that hold no whitespace
Trim(s, nonws) ==
    IF nonws = {} THEN <<>>
    ELSE LET lo == CHOOSE i \in nonws : \A j \in nonws : i <= j
             hi == CHOOSE i \in nonws : \A j \in nonws : j <= i
         IN  SubSeq(s, lo, hi)

StripChars(s) == Trim(s, {i \in DOMAIN s : s[i] \notin WhiteChars})

\* needle occurs in hay at position i
OccursAt(hay, needle, i) ==
    /\ i >= 1
    /\ i + Len(needle) - 1 <= Len(hay)
    /\ SubSeq(hay, i, i + Len(needle) - 1) = needle

\* Python's  needle in hay
Contains(hay, needle) == \E i \in 1..(Len(hay) + 1) : OccursAt(hay, needle, i)

RECURSIVE Dec(_)
\* str(n) for n >= 0
Dec(n) == IF n < 10 THEN <<DigitChars[n + 1]>>
          ELSE Dec(n \div 10) \o <<DigitChars[(n % 10) + 1]>>

RECURSIVE Zeros(_)
Zeros(k) == IF k <= 0 THEN <<>> ELSE <<"0">> \o Zeros(k - 1)

\* f"{n:0w}" for n >= 0
Pad(n, w) == Zeros(w - Len(Dec(n))) \o Dec(n)

RECURSIVE Flatten(_, _, _)
\* the concatenation ss[lo] \o ... \o ss[hi] of a sequence of sequences
Flatten(ss, lo, hi) ==
    IF lo > hi THEN <<>>
    ELSE IF lo = hi THEN ss[lo]
    ELSE LET mid == (lo + hi) \div 2
         IN  Flatten(ss, lo, mid) \o Flatten(ss, mid + 1, hi)

S_manual_edit == <<"m","a","n","u","a","l","_","e","d","i","t">>
S_colon_true == <<":"," ","t","r","u","e">>
S_colon_false == <<":"," ","f","a","l","s","e">>
S_Untitled == <<"U","n","t","i","t","l","e","d">>
S_unknown == <<"u","n","k","n","o","w","n">>
S_open == <<"-","-","-","\n">>
S_close == <<"\n","-","-","-">>
S_title_key == <<"t","i","t","l","e",":"," ","\"">>
S_quote_nl == <<"\"","\n">>
S_created_key == <<"c","r","e","a","t","e","d",":"," ","\"">>
S_tags == <<"t","a","g","s",":","\n"," "," ","-"," ","a","i","\n">>
S_source == <<"s","o","u","r","c","e",":"," ","\"","A","I","\"","\n">>
S_end_header == <<"-","-","-","\n","\n">>
S_md == <<".","m","d">>
S_part == <<"_","p","a","r","t","_">>
S_of == <<"_","o","f","_">>
S_png == <<".","p","n","g">>
S_file == <<"f","i","l","e","-">>
S_image == <<"i","m","a","g","e">>
S_Part == <<" ","(","P","a","r","t"," ">>

MANUAL_EDIT_KEY == S_manual_edit

---------------------------------------------------------------------------
(* slugify, format_ts, make_slug_or_hash *)

\* line 34 behind text.strip()
slug_chars(t) ==
    [i \in DOMAIN t |->
        IF IsAlnum(LowerChar(t[i])) \/ LowerChar(t[i]) \in {"-", "_"}
        THEN LowerChar(t[i]) ELSE "_"]

slugify(text) == slug_chars(StripChars(text))

\* The civil date <<y, m, d>> of a day number counted from 1970-01-01, as
\* datetime computes it in the proleptic Gregorian calendar: by 400-year
\* eras of 146097 days that begin on a 1st of March.
civil_ymd(era, yoe, doy, mp) ==
    <<yoe + era * 400 + (IF mp < 10 THEN 0 ELSE 1),
      IF mp < 10 THEN mp + 3 ELSE mp - 9,
      doy - (153 * mp + 2) \div 5 + 1>>

civil_doy(era, yoe, doy) == civil_ymd(era, yoe, doy, (5 * doy + 2) \div 153)

civil_yoe(era, doe, yoe) ==
    civil_doy(era, yoe, doe - (365 * yoe + yoe \div 4 - yoe \div 100))

civil_doe(era, doe) ==
    civil_yoe(era, doe,
              (doe - doe \div 1460 + doe \div 36524 - doe \div 146096) \div 365)

civil_era(z, era) == civil_doe(era, z - era * 146097)

CivilFromDays(days) == civil_era(days + 719468, (days + 719468) \div 146097)

\* strftime("%Y-%m-%d %H:%M")
Strftime(y, m, d, hh, mm) ==
    Pad(y, 4) \o <<"-">> \o Pad(m, 2) \o <<"-">> \o Pad(d, 2) \o <<" ">>
        \o Pad(hh, 2) \o <<":">> \o Pad(mm, 2)

\* A create_time value is [k, n, parses, fields]:
\*   k = "num"   a JSON number that utcfromtimestamp accepts, n its value
\*               (epoch seconds)
\*   k = "huge"  a JSON number outside the years 1..9999 (or NaN)
\*   k = "str"   a JSON string; parses says whether datetime.fromisoformat
\*               accepts it, fields = <<y, m, d, hh, mm>> is what it reads
\*   k = "other" any other JSON value (null, list, object)
\* datetime.utcfromtimestamp(n).strftime(...), date being the civil date of n
strftime_utc(n, date) ==
    Strftime(date[1], date[2], date[3], (n % 86400) \div 3600, (n % 3600) \div 60)

format_ts(ts) ==
    IF ts.k = "num"
    THEN strftime_utc(ts.n, CivilFromDays(ts.n \div 86400))
    ELSE IF ts.k = "huge"
    THEN S_unknown                 \* utcfromtimestamp raises, caught at line 44
    ELSE IF ts.k = "str"
    THEN IF ts.parses
         THEN Strftime(ts.fields[1], ts.fields[2], ts.fields[3],
                       ts.fields[4], ts.fields[5])
         ELSE S_unknown            \* fromisoformat raises, caught at line 44
    ELSE S_unknown

\* hashlib.sha1(text).hexdigest()[:10].  The digest is not computed: it
\* is represented by its preimage behind a "#", that is, as a hash without
\* collisions.  "#" occurs in no slug, so a digest never equals a slug made
\* of a title.
sha1_hex(text) == <<"#">> \o text

make_slug_or_hash(title, ts, i) ==
    IF title /= <<>>
    THEN Take(slugify(title), SlugLen)
    ELSE sha1_hex(ts \o <<"_">> \o Dec(i))

---------------------------------------------------------------------------
(* Message text *)

\* A token of message text is [k, s, arg]:
\*   k = "ws"     a run of whitespace, s
\*   k = "txt"    a run of text without whitespace at its ends that matches
\*                no image URL, s (arg tells equal runs apart)
\*   k = "url"    one match of https://files\.oaiusercontent\.com/[\w\-/]+\.png
\*   k = "local"  the text media/<arg>
\*   k = "img"    the text ![image](media/<arg>)
Tok(k, s, arg) == [k |-> k, s |-> s, arg |-> arg]

IsWsTok(t) == t.k = "ws"

NL == Tok("ws", "\n", <<>>)

S_media_ref(name) == Tok("img", "", name)

\* f"{name} — from '{title}'"
LogEntry(name, title) == [name |-> name, title |-> title]

RECURSIVE JoinNL(_)
\* "\n".join(results)
JoinNL(results) ==
    IF results = <<>> THEN <<>>
    ELSE IF Len(results) = 1 THEN results[1]
    ELSE results[1] \o <<NL>> \o JoinNL(Tail(results))

\* A content part is [k, ct, asset_ok, asset_id, hasText, text]:
\*   k = "str"   a JSON string, text its tokens
\*   k = "dict"  a JSON object: ct its content_type ("" when absent),
\*               asset_ok whether asset_pointer starts with
\*               file-service://file-, asset_id what follows the last
\*               "file-" in it, hasText whether it has the key "text"
\*   k = "other" any other JSON value
RECURSIVE PartsLoop(_, _, _, _)
\* lines 61-73: the loop over parts, from results and the entries logged so far
PartsLoop(parts, title, results, logged) ==
    IF parts = <<>> THEN [results |-> results, logged |-> logged]
    ELSE LET part == Head(parts)
             name == S_file \o part.asset_id \o S_png
         IN  IF part.k = "str"
             THEN PartsLoop(Tail(parts), title, Append(results, part.text), logged)
             ELSE IF part.k = "dict" /\ part.ct = "image_asset_pointer"
             THEN IF part.asset_ok
                  THEN PartsLoop(Tail(parts), title,
                                 Append(results, <<S_media_ref(name)>>),
                                 Append(logged, LogEntry(name, title)))
                  ELSE PartsLoop(Tail(parts), title, results, logged)
             ELSE IF part.k = "dict" /\ part.hasText
             THEN PartsLoop(Tail(parts), title, Append(results, part.text), logged)
             ELSE PartsLoop(Tail(parts), title, results, logged)

\* str.strip() of message text
StripTokens(joined) == Trim(joined, {j \in DOMAIN joined : ~IsWsTok(joined[j])})

\* line 74, r being what the loop has left
parts_result(r) == [text |-> StripTokens(JoinNL(r.results)), logged |-> r.logged]

\* the text process_parts returns, and the entries it appends to
\* media_log_entries
process_parts(parts, title) == parts_result(PartsLoop(parts, title, <<>>, <<>>))

IsUrlTok(t) == t.k = "url"

\* re.findall of the image URL pattern
image_urls_of(content) ==
    [i \in 1..Len(SelectSeq(content, IsUrlTok)) |-> SelectSeq(content, IsUrlTok)[i].s]

\* f"{slugify(title) or 'image'}_{idx:03}_{count:02}.png"
base_name_of(title, i, count) ==
    (IF slugify(title) /= <<>> THEN slugify(title) ELSE S_image)
        \o <<"_">> \o Pad(i, IdxWidth) \o <<"_">> \o Pad(count, CountWidth) \o S_png

\* content.replace(url, f"media/{base_name}")
ReplaceUrl(content, url, base_name) ==
    [j \in DOMAIN content |->
        IF content[j].k = "url" /\ content[j].s = url
        THEN Tok("local", "", base_name)
        ELSE content[j]]

\* lines 54-56 for one url and its base_name
sanitize_step(acc, url, base_name, title) ==
    [content |-> ReplaceUrl(acc.content, url, base_name)
                     \o <<Tok("ws", "\n\n", <<>>), S_media_ref(base_name)>>,
     logged |-> Append(acc.logged, LogEntry(base_name, title)),
     pairs |-> acc.pairs \cup {<<url, base_name>>}]

RECURSIVE SanitizeLoop(_, _, _, _, _)
\* lines 52-56 from the count-th url on; acc is what the earlier urls have done
SanitizeLoop(acc, urls, count, title, i) ==
    IF count > Len(urls) THEN acc
    ELSE SanitizeLoop(
             sanitize_step(acc, urls[count], base_name_of(title, i, count), title),
             urls, count + 1, title, i)

\* the content sanitize_and_log_images returns, the entries it appends to
\* media_log_entries and the (url, local name) pairs it makes
sanitize_and_log_images(content, title, i) ==
    SanitizeLoop([content |-> content, logged |-> <<>>, pairs |-> {}],
                 image_urls_of(content), 1, title, i)

---------------------------------------------------------------------------
(* Message extraction, lines 163-175 *)

\* A node is [msg, author, hasRole, role, content, hasParts, parts], where
\* msg, author and content say what the key holds: "absent" (no such key),
\* "null", "empty" (an empty object) or "dict".
\* msg.get("author", {}).get("role", "unknown") at line 168
msg_role(node) ==
    IF node.author \in {"absent", "empty"} \/ ~node.hasRole
    THEN "unknown" ELSE node.role

\* msg.get("content", {}).get("parts", []) at line 171
msg_parts(node) ==
    IF node.content \in {"absent", "empty"} \/ ~node.hasParts
    THEN <<>> ELSE node.parts

\* what an iteration appends: nothing, or it raises
NoStep == [crashed |-> FALSE, messages |-> <<>>, logged |-> <<>>]

RaisedStep == [crashed |-> TRUE, messages |-> <<>>, logged |-> <<>>]

\* lines 172-175, pp being what process_parts has returned
append_message(role, pp) ==
    [crashed |-> FALSE,
     messages |-> IF pp.text /= <<>> THEN <<<<role, pp.text>>>> ELSE <<>>,
     logged |-> pp.logged]

\* the loop body without the test of line 169
extract_node_keep_system(node, title, includeSystem) ==
    IF node.msg \in {"absent", "null", "empty"}
    THEN NoStep
    ELSE IF node.author = "null" \/ node.content = "null"
    THEN RaisedStep
    ELSE append_message(msg_role(node), process_parts(msg_parts(node), title))

\* The body of the loop of line 164 for one node: whether it raises, the
\* messages it appends (0 or 1) and the entries process_parts logs.
extract_node(node, title, includeSystem) ==
    IF node.msg \in {"absent", "null", "empty"}
    THEN NoStep                    \* if not msg: continue
    ELSE IF node.author = "null"
    THEN RaisedStep                \* None.get at line 168: AttributeError
    ELSE IF msg_role(node) = "system" /\ ~includeSystem
    THEN NoStep
    ELSE IF node.content = "null"
    THEN RaisedStep                \* None.get at line 171: AttributeError
    ELSE append_message(msg_role(node), process_parts(msg_parts(node), title))

\* thread.get("mapping", {}).values()
thread_nodes(thread) == IF thread.hasMapping THEN thread.mapping ELSE <<>>

\* the number of iterations that finish: all of them, or those before the
\* first that raises
finished_steps(step, raising) ==
    IF raising = {} THEN Len(step)
    ELSE (CHOOSE i \in raising : \A j \in raising : i <= j) - 1

\* what the first last iterations have appended together
steps_upto(step, raising, last) ==
    [crashed |-> raising /= {},
     messages |-> Flatten([i \in 1..last |-> step[i].messages], 1, last),
     logged |-> Flatten([i \in 1..last |-> step[i].logged], 1, last)]

\* step[i] being what the iteration for node i does
run_steps(step, raising) == steps_upto(step, raising, finished_steps(step, raising))

extract_steps(step) == run_steps(step, {i \in DOMAIN step : step[i].crashed})

\* The loop of line 164 over the node mapping in iteration order.  The
\* iterations do not depend on one another, so the loop is the
\* concatenation of what each node appends, up to the first that raises.
extract_nodes(nodes, includeSystem, title) ==
    extract_steps([i \in DOMAIN nodes |-> extract_node(nodes[i], title, includeSystem)])

extract_messages(thread, includeSystem, title) ==
    extract_nodes(thread_nodes(thread), includeSystem, title)

\* thread.get("title", "")
thread_title_empty(thread) == IF thread.hasTitle THEN thread.title ELSE <<>>

\* thread.get("title", "Untitled")
thread_title(thread) == IF thread.hasTitle THEN thread.title ELSE S_Untitled

\* thread.get("create_time", ""): the empty string is a string that
\* fromisoformat rejects
thread_create_time(thread) ==
    IF thread.hasTime THEN thread.create_time
    ELSE [k |-> "str", n |-> 0, parses |-> FALSE, fields |-> <<>>]

---------------------------------------------------------------------------
(* Paths and documents *)

OUTPUT_FOLDER == <<"g","p","t","_","e","x","p","o","r","t","_","m","a","r","k","d","o","w","n">>

CONVERSATION_FOLDER == <<"c","o","n","v","e","r","s","a","t","i","o","n","s">>

\* os.path.join(a, b) on POSIX
path_join(a, b) ==
    IF b /= <<>> /\ b[1] = "/" THEN b
    ELSE IF a = <<>> \/ a[Len(a)] = "/" THEN a \o b
    ELSE a \o <<"/">> \o b

CONV_PATH == path_join(OUTPUT_FOLDER, CONVERSATION_FOLDER)

\* timestamp.split()[0]
FirstField(s) ==
    LET t == StripChars(s)
        ws == {i \in DOMAIN t : t[i] \in WhiteChars}
    IN  IF ws = {} THEN t
        ELSE SubSeq(t, 1, (CHOOSE i \in ws : \A j \in ws : i <= j) - 1)

\* lines 98-103 and 127-132: the YAML frontmatter with its two delimiters
Frontmatter(title, timestamp) ==
    S_open \o S_title_key \o title \o S_quote_nl
        \o S_created_key \o FirstField(timestamp) \o S_quote_nl
        \o S_tags \o S_source \o S_end_header

\* A document is [head, h1, started, blocks, sep]: the text up to the blank
\* line behind the frontmatter, the level-1 heading (title, part, of; part
\* and of are 0 in a flat document), the timestamp of the _Started_ line,
\* the (role, content) blocks and what separates them ("rule" for
\* "\n\n---\n\n", "blank" for "\n\n").
Document(head, title, part, of, timestamp, blocks, sep) ==
    [head |-> head, h1 |-> [title |-> title, part |-> part, of |-> of],
     started |-> timestamp, blocks |-> blocks, sep |-> sep]

\* re.search(r"^---\n(.*?)\n---", content, re.DOTALL | re.MULTILINE): the
\* groups of the leftmost match, shortest first; a sequence of 0 or 1 text.
\* The frontmatter is at the start of every document and holds "\n---", so
\* the leftmost match lies within head.
match_ends(text, i) ==
    {j \in (i + Len(S_open))..Len(text) : OccursAt(text, S_close, j)}

match_starts(text) ==
    {i \in DOMAIN text :
        /\ i = 1 \/ text[i - 1] = "\n"
        /\ OccursAt(text, S_open, i)
        /\ match_ends(text, i) /= {}}

Least(S) == CHOOSE a \in S : \A b \in S : a <= b

match_group(text, i, ends) == <<SubSeq(text, i + Len(S_open), Least(ends) - 1)>>

match_from(text, i) == match_group(text, i, match_ends(text, i))

match_first(text, starts) ==
    IF starts = {} THEN <<>> ELSE match_from(text, Least(starts))

header_match(text) == match_first(text, match_starts(text))

\* open(filepath, "a"): the blocks are added to those of an existing file
open_a(fsv, filepath, doc) ==
    [p \in DOMAIN fsv \cup {filepath} |->
        IF p /= filepath THEN fsv[p]
        ELSE IF p \in DOMAIN fsv
        THEN [fsv[p] EXCEPT !.blocks = @ \o doc.blocks]
        ELSE doc]

\* open(filepath, "w") followed by the writes: the file holds doc afterwards
open_w(fsv, filepath, doc) ==
    [p \in DOMAIN fsv \cup {filepath} |-> IF p = filepath THEN doc ELSE fsv[p]]

S_colon_True == <<":"," ","T","r","u","e">>

\* lines 85-86, m being the match of line 84 and truth what follows the key
header_skips(m, truth) ==
    IF m /= <<>> /\ Contains(m[1], MANUAL_EDIT_KEY)
    THEN Contains(m[1], MANUAL_EDIT_KEY \o truth)
    ELSE FALSE

\* should_skip_file looking for "manual_edit: True"
should_skip_file_True(fsv, filepath) ==
    IF filepath \notin DOMAIN fsv THEN FALSE
    ELSE header_skips(header_match(fsv[filepath].head), S_colon_True)

should_skip_file(fsv, filepath) ==
    IF filepath \notin DOMAIN fsv THEN FALSE
    ELSE header_skips(header_match(fsv[filepath].head), S_colon_true)

\* A line of the index is [k, title, timestamp, part, of, target]:
\*   "heading"   # ChatGPT Conversation Index
\*   "link"      - [title (timestamp)](target)
\*   "skip"      - title (timestamp) — *manual edit skipped*
\*   "thread"    - title (timestamp)
\*   "partlink"    - [Part part of of](target)
\*   "partskip"    - [Part part of of] — *manual edit skipped*
TocLine(k, title, timestamp, part, of, target) ==
    [k |-> k, title |-> title, timestamp |-> timestamp,
     part |-> part, of |-> of, target |-> target]

\* what one loop iteration did at one target path: whether it skipped the
\* write, the file it found and the file it left (sequences of 0 or 1
\* document) and the index line it returned
Target(filepath, skipped, before, after, line) ==
    [path |-> filepath, skipped |-> skipped, before |-> before,
     after |-> after, line |-> line]

FileAt(fsv, filepath) == IF filepath \in DOMAIN fsv THEN <<fsv[filepath]>> ELSE <<>>

\* lines 107-109 and 136-138: the blocks written for messages, the media
\* log entries appended and the (url, local name) pairs made on the way.
\* Each message is sanitized on its own, whatever the others hold.
rendered(messages, san) ==
    [blocks |-> [j \in DOMAIN messages |-> <<messages[j][1], san[j].content>>],
     logged |-> Flatten([j \in DOMAIN messages |-> san[j].logged], 1, Len(messages)),
     pairs |-> UNION {san[j].pairs : j \in DOMAIN messages}]

render_messages(messages, title, i) ==
    rendered(messages,
             [j \in DOMAIN messages |->
                 sanitize_and_log_images(messages[j][2], title, i)])

\* The writers return [fs, toc, logged, pairs, targets]: the documents
\* afterwards, the index lines returned, the entries appended to
\* media_log_entries, the (url, local name) pairs and the targets reached.
NothingWritten(fsv) ==
    [fs |-> fsv, toc |-> <<>>, logged |-> <<>>, pairs |-> {}, targets |-> <<>>]

\* lines 93-110 and 122-139 at one target path: doc is the document the
\* writes make of the rendered messages r, acc what was done before
write_target(acc, filepath, doc, skipLine, linkLine, r) ==
    IF should_skip_file(acc.fs, filepath)
    THEN [fs |-> acc.fs, toc |-> Append(acc.toc, skipLine),
          logged |-> acc.logged, pairs |-> acc.pairs,
          targets |-> Append(acc.targets,
              Target(filepath, TRUE, FileAt(acc.fs, filepath),
                     FileAt(acc.fs, filepath), skipLine))]
    ELSE [fs |-> open_w(acc.fs, filepath, doc), toc |-> Append(acc.toc, linkLine),
          logged |-> acc.logged \o r.logged, pairs |-> acc.pairs \cup r.pairs,
          targets |-> Append(acc.targets,
              Target(filepath, FALSE, FileAt(acc.fs, filepath), <<doc>>, linkLine))]

\* lines 90-110 for the file name of line 90 and the rendered messages
write_single_file(fsv, filename, title, timestamp, r) ==
    write_target(NothingWritten(fsv), path_join(CONV_PATH, filename),
                 Document(Frontmatter(title, timestamp), title, 0, 0,
                          timestamp, r.blocks, "rule"),
                 TocLine("skip", title, timestamp, 0, 0, <<>>),
                 TocLine("link", title, timestamp, 0, 0,
                         CONVERSATION_FOLDER \o <<"/">> \o filename),
                 r)

write_single_convo(fsv, slug, title, timestamp, messages, i) ==
    write_single_file(fsv, slug \o S_md, title, timestamp,
                      render_messages(messages, title, i))

RECURSIVE PyRange(_, _, _)
\* list(range(a, b, step)) for step > 0
PyRange(a, b, step) == IF a >= b THEN <<>> ELSE <<a>> \o PyRange(a + step, b, step)

\* messages[a:b] for 0 <= a <= b
Slice(messages, a, b) ==
    SubSeq(messages, a + 1, IF b > Len(messages) THEN Len(messages) ELSE b)

\* [messages[i:i + MAX_MESSAGES_PER_FILE] for i in starts]
chunks_at(messages, starts) ==
    [k \in DOMAIN starts |->
        Slice(messages, starts[k], starts[k] + MAX_MESSAGES_PER_FILE)]

\* line 115 with range(0, len(messages) - 1, MAX_MESSAGES_PER_FILE)
chunk_parts_short(messages) ==
    chunks_at(messages, PyRange(0, Len(messages) - 1, MAX_MESSAGES_PER_FILE))

\* line 115
chunk_parts(messages) ==
    chunks_at(messages, PyRange(0, Len(messages), MAX_MESSAGES_PER_FILE))

\* f"{slug}_part_{i+1}_of_{len(parts)}.md"
partname_of(slug, i, n) == slug \o S_part \o Dec(i + 1) \o S_of \o Dec(n) \o S_md

\* lines 119-139 for part i (counted from 0) of n, its file name and its
\* rendered messages
write_part_file(acc, slug, partname, i, n, title, timestamp, r) ==
    write_target(acc, path_join(path_join(CONV_PATH, slug), partname),
                 Document(Frontmatter(title \o S_Part \o Dec(i + 1) \o <<")">>,
                                      timestamp),
                          title, i + 1, n, timestamp, r.blocks, "blank"),
                 TocLine("partskip", <<>>, <<>>, i + 1, n, <<>>),
                 TocLine("partlink", <<>>, <<>>, i + 1, n,
                         CONVERSATION_FOLDER \o <<"/">> \o slug \o <<"/">> \o partname),
                 r)

RECURSIVE ChunkLoop(_, _, _, _, _, _, _)
\* lines 118-139 from part i (counted from 0) on; acc is what the earlier
\* parts have done
ChunkLoop(acc, parts, i, slug, title, timestamp, t) ==
    IF i >= Len(parts) THEN acc
    ELSE ChunkLoop(
             write_part_file(acc, slug, partname_of(slug, i, Len(parts)), i,
                             Len(parts), title, timestamp,
                             render_messages(parts[i + 1], title, t)),
             parts, i + 1, slug, title, timestamp, t)

write_chunked_convo(fsv, slug, title, timestamp, messages, i) ==
    ChunkLoop(NothingWritten(fsv), chunk_parts(messages), 0, slug, title,
              timestamp, i)

\* line 178 with >=
is_chunked_ge(messages) == Len(messages) >= MAX_MESSAGES_PER_FILE

\* line 178
is_chunked(messages) == Len(messages) > MAX_MESSAGES_PER_FILE

---------------------------------------------------------------------------
(* The inputs: threads of conversations.json *)

GENERATE_TOC == TRUE

U1 == "https://files.oaiusercontent.com/a.png"
U2 == "https://files.oaiusercontent.com/b.png"

Txt(s) == Tok("txt", s, <<>>)
Ws(s) == Tok("ws", s, <<>>)
Url(u) == Tok("url", u, <<>>)

StrPart(text) ==
    [k |-> "str", ct |-> "", asset_ok |-> FALSE, asset_id |-> <<>>,
     hasText |-> FALSE, text |-> text]

AssetPart(ok, id) ==
    [k |-> "dict", ct |-> "image_asset_pointer", asset_ok |-> ok,
     asset_id |-> id, hasText |-> FALSE, text |-> <<>>]

TextDict(ct, text) ==
    [k |-> "dict", ct |-> ct, asset_ok |-> FALSE, asset_id |-> <<>>,
     hasText |-> TRUE, text |-> text]

OtherPart(k) ==
    [k |-> k, ct |-> "", asset_ok |-> FALSE, asset_id |-> <<>>,
     hasText |-> FALSE, text |-> <<>>]

Node(msg, author, hasRole, role, content, hasParts, parts) ==
    [msg |-> msg, author |-> author, hasRole |-> hasRole, role |-> role,
     content |-> content, hasParts |-> hasParts, parts |-> parts]

\* a node whose message has a role and parts
Said(role, parts) == Node("dict", "dict", TRUE, role, "dict", TRUE, parts)

NoMessage(msg) == Node(msg, "absent", FALSE, "", "absent", FALSE, <<>>)

Num(n) == [k |-> "num", n |-> n, parses |-> FALSE, fields |-> <<>>]
Iso(parses, fields) == [k |-> "str", n |-> 0, parses |-> parses, fields |-> fields]
NotATime(k) == [k |-> k, n |-> 0, parses |-> FALSE, fields |-> <<>>]

Thread(hasTitle, title, hasTime, create_time, hasMapping, mapping) ==
    [hasTitle |-> hasTitle, title |-> title, hasTime |-> hasTime,
     create_time |-> create_time, hasMapping |-> hasMapping, mapping |-> mapping]

\* "Hi!": text, a node without message, repeated and distinct image URLs in
\* one message, a system message, a blank message, every kind of part, and
\* a last message with an image URL of its own
ThreadA ==
    Thread(TRUE, <<"H","i","!">>, TRUE, Num(1700000000), TRUE,
      << Said("user", <<StrPart(<<Txt("Hello")>>)>>),
         NoMessage("null"),
         Said("assistant", <<StrPart(<<Txt("see"), Ws(" "), Url(U1), Ws(" "),
                                       Url(U1), Ws(" "), Url(U2), Ws("\n")>>)>>),
         Said("system", <<StrPart(<<Txt("rules")>>)>>),
         Said("user", <<StrPart(<<Ws(" ")>>), StrPart(<<>>)>>),
         Said("tool", <<AssetPart(TRUE, <<"a","b","c">>), AssetPart(FALSE, <<>>),
                        TextDict("text", <<Ws(" "), Txt("t")>>),
                        TextDict("image_asset_pointer", <<Txt("x")>>),
                        OtherPart("dict"), OtherPart("other")>>),
         Said("assistant", <<StrPart(<<Url(U2)>>), StrPart(<<Txt("done")>>)>>) >>)

\* the empty title, no create_time, messages with missing fields
ThreadC ==
    Thread(TRUE, <<>>, FALSE, NotATime("other"), TRUE,
      << Node("dict", "absent", FALSE, "", "dict", TRUE, <<StrPart(<<Txt("x")>>)>>),
         Node("dict", "dict", FALSE, "", "dict", TRUE, <<StrPart(<<Txt("y")>>)>>),
         Node("dict", "dict", TRUE, "user", "absent", FALSE, <<>>),
         Node("dict", "dict", TRUE, "user", "dict", FALSE, <<>>),
         NoMessage("empty"), NoMessage("absent") >>)

\* a title of whitespace, a create_time that is no ISO date
ThreadD ==
    Thread(TRUE, <<" ">>, TRUE, Iso(FALSE, <<>>), TRUE,
      << Said("user", <<StrPart(<<Txt("w"), Ws(" ")>>), StrPart(<<Url(U2)>>)>>) >>)

\* no title, a create_time out of range, no mapping
ThreadE ==
    Thread(FALSE, <<>>, TRUE, NotATime("other"), FALSE, <<>>)

\* "author": null
ThreadF ==
    Thread(TRUE, <<"F">>, TRUE, Iso(TRUE, <<2024, 1, 2, 3, 4>>), TRUE,
      << Said("user", <<StrPart(<<Txt("f")>>)>>),
         Node("dict", "null", FALSE, "", "dict", TRUE, <<StrPart(<<Txt("g")>>)>>) >>)

\* a title that holds the manual-edit marker
ThreadM ==
    Thread(TRUE, S_manual_edit \o S_colon_true, TRUE, NotATime("huge"), TRUE,
      << Said("user", <<StrPart(<<Url(U1)>>)>>) >>)

\* "Big": n messages told apart by their number; the first two hold an
\* image URL each, every seventh node is a system message
BigThread(n) ==
    Thread(TRUE, <<"B","i","g">>, TRUE, Num(86399), TRUE,
      [i \in 1..n |->
          Said(IF i % 7 = 0 THEN "system" ELSE IF i % 2 = 1 THEN "user" ELSE "assistant",
               <<StrPart(<<Tok("txt", "line", Dec(i))>>
                         \o (IF i = 1 THEN <<Ws(" "), Url(U1)>>
                             ELSE IF i = 2 THEN <<Ws(" "), Url(U2)>> ELSE <<>>))>>)])

BigSizes == {MAX_MESSAGES_PER_FILE, MAX_MESSAGES_PER_FILE + 1,
             2 * MAX_MESSAGES_PER_FILE + 1}

ThreadPalette == {ThreadA, ThreadC, ThreadD, ThreadE, ThreadF, ThreadM}

\* an export of up to MaxThreads threads, or of one long thread
Inputs ==
    UNION {[1..n -> ThreadPalette] : n \in 1..MaxThreads}
        \cup {<<BigThread(n)>> : n \in BigSizes}

---------------------------------------------------------------------------
(* The run *)

HeadingLine == TocLine("heading", <<>>, <<>>, 0, 0, <<>>)

Init ==
    /\ conversations \in Inputs
    /\ INCLUDE_SYSTEM_MESSAGES \in BOOLEAN
    /\ pc = "loop"
    /\ run = 1
    /\ idx = 0
    /\ fs = <<>>
    /\ index_md = <<>>
    /\ media_file = <<>>
    /\ toc = <<HeadingLine>>
    /\ media_log_entries = <<>>
    /\ total_threads = 0
    /\ total_messages = 0
    /\ report = <<>>
    /\ url_names = {}
    /\ fs_start = <<>>
    /\ edits = <<>>

\* lines 176-182 once the writer has returned w
loop_written(i, title, timestamp, slug, ex, chunked, w) ==
    [crashed |-> FALSE,
     fs |-> w.fs,
     toc |-> (IF chunked
              THEN <<TocLine("thread", title, timestamp, 0, 0, <<>>)>>
              ELSE <<>>) \o w.toc,
     logged |-> ex.logged \o w.logged,
     pairs |-> w.pairs,
     count |-> Len(ex.messages),
     record |-> <<[idx |-> i, title |-> title, timestamp |-> timestamp,
                   slug |-> slug, messages |-> ex.messages, chunked |-> chunked,
                   parts |-> IF chunked THEN chunk_parts(ex.messages) ELSE <<>>,
                   targets |-> w.targets]>>]

\* lines 176-182 once the messages are extracted
loop_route(i, fsv, title, timestamp, slug, ex, chunked) ==
    loop_written(i, title, timestamp, slug, ex, chunked,
        IF chunked
        THEN write_chunked_convo(fsv, slug, title, timestamp, ex.messages, i)
        ELSE write_single_convo(fsv, slug, title, timestamp, ex.messages, i))

\* lines 163-182, ex being what the loop of line 164 has done
loop_extracted(i, fsv, title, timestamp, slug, ex) ==
    IF ex.crashed
    THEN [crashed |-> TRUE, fs |-> fsv, toc |-> <<>>, logged |-> <<>>,
          pairs |-> {}, count |-> 0, record |-> <<>>]
    ELSE loop_route(i, fsv, title, timestamp, slug, ex, is_chunked(ex.messages))

\* lines 160-182 for the title and the timestamp of lines 157-159
loop_titled(thread, i, fsv, includeSystem, title, timestamp) ==
    loop_extracted(i, fsv, title, timestamp,
                   make_slug_or_hash(title, timestamp, i),
                   extract_messages(thread, includeSystem, title))

\* one iteration of the loop of line 156: what it computes
loop_body(thread, i, fsv, includeSystem) ==
    loop_titled(thread, i, fsv, includeSystem, thread_title(thread),
                format_ts(thread_create_time(thread)))

ProcessThread ==
    /\ pc = "loop"
    /\ idx < Len(conversations)
    /\ \E b \in {loop_body(conversations[idx + 1], idx, fs, INCLUDE_SYSTEM_MESSAGES)} :
          IF b.crashed
          THEN /\ pc' = "crashed"
               /\ UNCHANGED <<idx, fs, toc, media_log_entries, total_threads,
                              total_messages, report, url_names>>
          ELSE /\ pc' = pc
               /\ idx' = idx + 1
               /\ fs' = b.fs
               /\ toc' = toc \o b.toc
               /\ media_log_entries' = media_log_entries \o b.logged
               /\ total_threads' = total_threads + 1
               /\ total_messages' = total_messages + b.count
               /\ url_names' = url_names \cup b.pairs
               /\ report' = report \o b.record
    /\ UNCHANGED <<conversations, INCLUDE_SYSTEM_MESSAGES, run, index_md,
                   media_file, fs_start, edits>>

\* lines 184-190, after the last thread
Finish ==
    /\ pc = "loop"
    /\ idx = Len(conversations)
    /\ pc' = "done"
    /\ index_md' = IF GENERATE_TOC THEN <<toc>> ELSE index_md
    /\ media_file' = IF media_log_entries /= <<>>
                     THEN <<media_log_entries>> ELSE media_file
    /\ UNCHANGED <<conversations, INCLUDE_SYSTEM_MESSAGES, run, idx, fs, toc,
                   media_log_entries, total_threads, total_messages, report,
                   url_names, fs_start, edits>>

\* the key manual_edit occurs in the header of doc
has_key(m) == m /= <<>> /\ Contains(m[1], MANUAL_EDIT_KEY)

HasManualKey(doc) == has_key(header_match(doc.head))

\* doc after its owner has put "manual_edit: <value>" first in the header
\* and added a note of their own below the messages
Edited(doc, value) ==
    [doc EXCEPT
        !.head = S_open \o MANUAL_EDIT_KEY \o value \o <<"\n">>
                     \o SubSeq(doc.head, Len(S_open) + 1, Len(doc.head)),
        !.blocks = Append(doc.blocks, <<"editor", <<Txt("my note")>>>>)]

\* between two runs the user edits a document by hand
ManualEdit(filepath, value) ==
    /\ pc = "done"
    /\ run < MaxRuns
    /\ Len(edits) < MaxEdits
    /\ filepath \in DOMAIN fs
    /\ ~HasManualKey(fs[filepath])
    /\ fs' = [fs EXCEPT ![filepath] = Edited(fs[filepath], value)]
    /\ edits' = Append(edits, run)
    /\ UNCHANGED <<conversations, INCLUDE_SYSTEM_MESSAGES, pc, run, idx,
                   index_md, media_file, toc, media_log_entries, total_threads,
                   total_messages, report, url_names, fs_start>>

\* the script is started again on the same conversations.json: lines 21-27
\* and 154 set the globals anew, the output folder is as it was left
Rerun ==
    /\ pc = "done"
    /\ run < MaxRuns
    /\ pc' = "loop"
    /\ run' = run + 1
    /\ idx' = 0
    /\ toc' = <<HeadingLine>>
    /\ media_log_entries' = <<>>
    /\ total_threads' = 0
    /\ total_messages' = 0
    /\ report' = <<>>
    /\ url_names' = {}
    /\ fs_start' = fs
    /\ UNCHANGED <<conversations, INCLUDE_SYSTEM_MESSAGES, fs, index_md,
                   media_file, edits>>

Next ==
    \/ ProcessThread
    \/ Finish
    \/ \E filepath \in DOMAIN fs, value \in {S_colon_true, S_colon_false} :
           ManualEdit(filepath, value)
    \/ Rerun

Spec == Init /\ [][Next]_vars

---------------------------------------------------------------------------
(* Properties *)

\* the metadata header of doc holds the marker "manual_edit: true"
HoldsMarker(m) == m /= <<>> /\ Contains(m[1], MANUAL_EDIT_KEY \o S_colon_true)

MarkedTrue(doc) == HoldsMarker(header_match(doc.head))

TargetsOf(r) == {r.targets[t] : t \in DOMAIN r.targets}

\* the messages behind target number t of the loop iteration r
PartOf(r, t) == IF r.chunked THEN r.parts[t] ELSE r.messages

NoEditSince(r) == \A e \in DOMAIN edits : edits[e] < r

\* C2: when a run ends that was started on the documents the run before
\* had left, no document having been edited in between, every document is
\* what it was when the run before ended.
RerunIdempotent ==
    (pc = "done" /\ run >= 2 /\ NoEditSince(run - 1)) => fs = fs_start

\* a second run that has written at least two documents again, unedited
RerunIdempotentWitness ==
    /\ pc = "done"
    /\ run >= 2
    /\ edits = <<>>
    /\ Cardinality(DOMAIN fs) >= 2
    /\ \E k \in DOMAIN report : \E tg \in TargetsOf(report[k]) :
           ~tg.skipped /\ tg.before /= <<>> /\ tg.after[1].blocks /= <<>>

FlatPath(slug) == path_join(CONV_PATH, slug \o S_md)

\* C3: a thread of at most MAX_MESSAGES_PER_FILE extracted messages has one
\* target, the flat document named by its slug; a thread is chunked (its
\* targets are part documents, announced by a thread line) exactly if it
\* has more messages than that.
RoutingByCount ==
    \A k \in DOMAIN report :
        LET r == report[k]
            n == Len(r.messages)
            flat == /\ Len(r.targets) = 1
                    /\ r.targets[1].path = FlatPath(r.slug)
                    /\ r.targets[1].line.k \in {"link", "skip"}
            inParts == /\ \A tg \in TargetsOf(r) :
                              tg.line.k \in {"partlink", "partskip"}
                       /\ \A tg \in TargetsOf(r) : tg.path /= FlatPath(r.slug)
        IN  /\ n <= MAX_MESSAGES_PER_FILE => flat /\ ~r.chunked
            /\ n > MAX_MESSAGES_PER_FILE => inParts /\ r.chunked /\ ~flat

\* threads of exactly the threshold and of one message more have been routed
RoutingByCountWitness ==
    \E k \in DOMAIN report :
        /\ Len(report[k].messages) = MAX_MESSAGES_PER_FILE
        /\ Len(report[k].targets) = 1
        /\ ~report[k].targets[1].skipped

\* ceil(n / t) for t > 0
CeilDiv(n, t) == CHOOSE q \in 0..n : q * t >= n /\ (q - 1) * t < n

PartPath(slug, i, n) ==
    path_join(path_join(CONV_PATH, slug),
              slug \o S_part \o Dec(i) \o S_of \o Dec(n) \o S_md)

\* C4: the messages of a chunked thread are cut into ceil(n/T) consecutive
\* groups, none empty, none longer than T, all but the last of length T,
\* whose concatenation is the message sequence; the part documents are
\* numbered 1..ceil(n/T) and each name and heading carries that total.
ChunkPartition ==
    \A k \in DOMAIN report :
        report[k].chunked =>
            LET r == report[k]
                n == Len(r.messages)
                q == CeilDiv(n, MAX_MESSAGES_PER_FILE)
            IN  /\ Len(r.parts) = q
                /\ Len(r.targets) = q
                /\ \A i \in 1..q :
                       /\ r.parts[i] /= <<>>
                       /\ Len(r.parts[i]) <= MAX_MESSAGES_PER_FILE
                       /\ i < q => Len(r.parts[i]) = MAX_MESSAGES_PER_FILE
                       /\ r.targets[i].path = PartPath(r.slug, i, q)
                       /\ r.targets[i].line.part = i
                       /\ r.targets[i].line.of = q
                       /\ ~r.targets[i].skipped =>
                              /\ r.targets[i].after[1].h1.part = i
                              /\ r.targets[i].after[1].h1.of = q
                              /\ Len(r.targets[i].after[1].blocks) = Len(r.parts[i])
                /\ Flatten(r.parts, 1, q) = r.messages

\* a thread cut into three parts, the last of them shorter than the others
ChunkPartitionWitness ==
    \E k \in DOMAIN report :
        /\ report[k].chunked
        /\ Len(report[k].parts) = 3
        /\ Len(report[k].parts[3]) < MAX_MESSAGES_PER_FILE
        /\ \A tg \in TargetsOf(report[k]) : ~tg.skipped

\* the title is empty or whitespace only
Blank(title) == StripChars(title) = <<>>

\* C5: two threads of empty or whitespace-only title at distinct indices
\* have distinct slugs, whatever their timestamps.
BlankTitleSlugsDiffer ==
    \A i, j \in DOMAIN report :
        (i /= j /\ Blank(report[i].title) /\ Blank(report[j].title))
            => report[i].slug /= report[j].slug

\* thread with every missing field filled in with its default
WithDefaults(thread) ==
    [thread EXCEPT
        !.hasTitle = TRUE,
        !.title = IF thread.hasTitle THEN @ ELSE S_Untitled,
        !.hasMapping = TRUE,
        !.mapping = [i \in DOMAIN thread.mapping |->
            LET node == thread.mapping[i]
                noRole == node.author = "absent" \/ ~node.hasRole
                noParts == node.content = "absent" \/ ~node.hasParts
            IN  IF node.msg /= "dict" THEN node
                ELSE [node EXCEPT
                        !.author = IF noRole THEN "dict" ELSE @,
                        !.hasRole = TRUE,
                        !.role = IF noRole THEN "unknown" ELSE @,
                        !.content = IF noParts THEN "dict" ELSE @,
                        !.hasParts = TRUE,
                        !.parts = IF noParts THEN <<>> ELSE @]]]

\* a key of the thread holds null where an object is expected
HasNull(thread) ==
    \E i \in DOMAIN thread.mapping :
        /\ thread.hasMapping
        /\ thread.mapping[i].msg = "dict"
        /\ thread.mapping[i].author = "null" \/ thread.mapping[i].content = "null"

\* the create_time is missing or is no date
BadTime(thread) ==
    \/ ~thread.hasTime
    \/ thread.create_time.k \in {"huge", "other"}
    \/ thread.create_time.k = "str" /\ ~thread.create_time.parses

\* C6: a missing title, a missing or malformed timestamp, a missing role and
\* missing parts are replaced by "Untitled", "unknown", "unknown" and the
\* empty sequence; the run raises on no such thread, and when it ends it
\* has processed every thread and written the index.
DefaultsNeverAbort ==
    /\ pc = "crashed" => HasNull(conversations[idx + 1])
    /\ \A k \in DOMAIN report :
           LET thread == conversations[k]
               r == report[k]
           IN  /\ ~thread.hasTitle => r.title = S_Untitled
               /\ BadTime(thread) => r.timestamp = S_unknown
               /\ r.messages =
                      extract_messages(WithDefaults(thread),
                                       INCLUDE_SYSTEM_MESSAGES, r.title).messages
               /\ \A i \in DOMAIN thread.mapping :
                      (/\ thread.hasMapping
                       /\ thread.mapping[i].msg = "dict"
                       /\ thread.mapping[i].content = "absent"
                          \/ ~thread.mapping[i].hasParts)
                          => Len(r.messages) < Len(thread.mapping)
    /\ pc = "done" =>
           /\ Len(report) = Len(conversations)
           /\ total_threads = Len(conversations)
           /\ index_md = <<toc>>
           /\ Len(toc) > Len(conversations)

\* a finished run over a thread without title and a thread without
\* timestamp whose messages lack roles and parts
DefaultsNeverAbortWitness ==
    /\ pc = "done"
    /\ \E i, j \in DOMAIN conversations :
           /\ ~conversations[i].hasTitle
           /\ report[i].title = S_Untitled
           /\ ~conversations[j].hasTime
           /\ report[j].timestamp = S_unknown
           /\ \E m \in DOMAIN report[j].messages :
                  report[j].messages[m][1] = "unknown"
           /\ \E n \in DOMAIN conversations[j].mapping :
                  /\ conversations[j].mapping[n].msg = "dict"
                  /\ ~conversations[j].mapping[n].hasParts

\* the number of tokens of kind k in the messages
CountTokens(messages, k) ==
    Cardinality(UNION {{<<m, j>> : j \in {j \in DOMAIN messages[m][2] :
                                            messages[m][2][j].k = k}} :
                       m \in DOMAIN messages})

RECURSIVE SumOver(_, _)
\* the sum of f[1], ..., f[n]
SumOver(f, n) == IF n = 0 THEN 0 ELSE SumOver(f, n - 1) + f[n]

\* C7: when the run ends the media log holds one entry for every image URL
\* match in the text of every extracted message and one for every image
\* asset pointer of the file service (each stands as one image reference in
\* the text of its message).
MediaLogComplete ==
    pc = "done" =>
        Len(media_log_entries) =
            SumOver([k \in DOMAIN report |->
                        CountTokens(report[k].messages, "url")
                            + CountTokens(report[k].messages, "img")],
                    Len(report))

\* the role line 168 reads from a node
RoleOf(node) ==
    IF node.author \in {"absent", "empty"} \/ ~node.hasRole
    THEN "unknown" ELSE node.role

\* the joined and stripped text of the parts of a node
TextOf(node, title) ==
    process_parts(IF node.content \in {"absent", "empty"} \/ ~node.hasParts
                  THEN <<>> ELSE node.parts, title).text

\* the node has a message that the extraction keeps
Kept(node, title, includeSystem) ==
    /\ node.msg \notin {"absent", "null"}
    /\ ~(RoleOf(node) = "system" /\ ~includeSystem)
    /\ TextOf(node, title) /= <<>>

KeptNodes(nodes, title, includeSystem) ==
    LET kept(node) == Kept(node, title, includeSystem)
    IN  SelectSeq(nodes, kept)

AsMessages(nodes, title) ==
    [i \in DOMAIN nodes |-> <<RoleOf(nodes[i]), TextOf(nodes[i], title)>>]

\* C8: the extracted messages of a thread are, in the order of the mapping,
\* the (role, text) of the nodes that have a message other than null, whose
\* role is not "system" when system messages are excluded and whose text is
\* not empty; total_messages is the number of messages extracted.
ExtractionIsFilter ==
    /\ \A k \in DOMAIN report :
           report[k].messages =
               AsMessages(KeptNodes(IF conversations[k].hasMapping
                                    THEN conversations[k].mapping ELSE <<>>,
                                    report[k].title, INCLUDE_SYSTEM_MESSAGES),
                          report[k].title)
    /\ total_messages =
           SumOver([k \in DOMAIN report |-> Len(report[k].messages)], Len(report))

\* a thread with a node without message, a system message that is excluded
\* and a blank message has been extracted
ExtractionIsFilterWitness ==
    /\ ~INCLUDE_SYSTEM_MESSAGES
    /\ \E k \in DOMAIN report :
           LET nodes == conversations[k].mapping
           IN  /\ \E i \in DOMAIN nodes : nodes[i].msg = "null"
               /\ \E i \in DOMAIN nodes : nodes[i].msg = "dict" /\ nodes[i].role = "system"
               /\ \E i \in DOMAIN nodes :
                      /\ nodes[i].msg = "dict"
                      /\ nodes[i].parts /= <<>>
                      /\ TextOf(nodes[i], report[k].title) = <<>>
               /\ Len(report[k].messages) >= 2
               /\ total_messages >= Len(report[k].messages)

\* C9: two threads at distinct indices are never written to the same
\* document path.
NoThreadOverwritesAnother ==
    \A i, j \in DOMAIN report :
        i /= j =>
            {tg.path : tg \in TargetsOf(report[i])}
                \cap {tg.path : tg \in TargetsOf(report[j])} = {}

\* C10: two distinct image URLs are never rewritten to the same local file
\* name within one run.
MediaNamesUnique ==
    \A a, b \in url_names : a[1] /= b[1] => a[2] /= b[2]

====
